---- MODULE Spec2Model ----
(***************************************************************************)
(* QJsonArray (src/corelib/serialization/qjsonarray.cpp): an implicitly    *)
(* shared array handle over a reference-counted QCborContainerPrivate.     *)
(* The handle methods are translated from qjsonarray.cpp.  The container   *)
(* (QCborContainerPrivate), the shared pointer that holds it               *)
(* (QExplicitlySharedDataPointer) and the value codec live in other files  *)
(* of the repository and are modelled from their documented contract.      *)
(***************************************************************************)
EXTENDS Integers, Sequences, FiniteSets, TLC

\* ---- bounds ----
\* largest number of elements an array is grown to
MaxLen == 2
\* number of heap cells a container can be allocated in
NumBackends == 2
\* width in bits of the size_t a hash is computed in
HashBits == 4

Handles == {"h1", "h2"}
Backends == 1..NumBackends
\* the null pointer
NULL == 0

Max(x, y) == IF x >= y THEN x ELSE y

\* ---- QJsonValue: the closed variant of JSON values ----
Undefined == [type |-> "Undefined", v |-> ""]
JsonNull == [type |-> "Null", v |-> ""]
JsonDouble == [type |-> "Double", v |-> "1"]
\* the values calls are made with
JsonValues == {Undefined, JsonNull, JsonDouble}
\* QJsonValue(const QString &)
JsonString(str) == [type |-> "String", v |-> str]
\* the return value of a void method
Void == [type |-> "void", v |-> ""]

\* ---- element codec (QCborValue) ----
\* QCborValue(nullptr)
CborNull == [tag |-> "CborNull", v |-> ""]
\* QCborValue::fromJsonValue: the encoded form of a JSON value
fromJsonValue(v) ==
    [tag |-> CASE v.type = "Null" -> "CborNull"
               [] v.type = "Double" -> "CborDouble"
               [] v.type = "String" -> "CborString"
               [] OTHER -> "CborUndefined",
     v |-> v.v]
\* QJsonPrivate::Value::fromTrustedCbor: the JSON value of an encoded element
fromTrustedCbor(c) ==
    [type |-> CASE c.tag = "CborNull" -> "Null"
                [] c.tag = "CborDouble" -> "Double"
                [] c.tag = "CborString" -> "String"
                [] OTHER -> "Undefined",
     v |-> c.v]

\* ---- QCborContainerPrivate: the shared storage backend ----
\* a heap cell that holds no container
FreeCell == [elements |-> <<>>, ref |-> 0, freed |-> TRUE]
\* new QCborContainerPrivate: a container with no elements and no owner yet
NewContainer(elems) == [elements |-> elems, ref |-> 0, freed |-> FALSE]
\* the cell operator new returns
FreshCell(hp) == CHOOSE d \in Backends : hp[d].freed /\ \A e \in Backends : hp[e].freed => d <= e
HasFreeCell(hp) == \E d \in Backends : hp[d].freed

\* a->elements.size()
count(hp, d) == Len(hp[d].elements)
\* a->valueAt(i)
valueAt(hp, d, i) == hp[d].elements[i + 1]
\* a->insertAt(i, e)
insertAt(hp, d, i, e) ==
    [hp EXCEPT ![d].elements = SubSeq(@, 1, i) \o <<e>> \o SubSeq(@, i + 1, Len(@))]
\* a->removeAt(i)
containerRemoveAt(hp, d, i) ==
    [hp EXCEPT ![d].elements = SubSeq(@, 1, i) \o SubSeq(@, i + 2, Len(@))]
\* a->replaceAt(i, e)
replaceAt(hp, d, i, e) == [hp EXCEPT ![d].elements[i + 1] = e]
\* a->extractAt(i): moves the value out of slot i; the slot itself stays in
\* the list until the removeAt(i) that follows it in takeAt
extractAt(hp, d, i) == [heap |-> hp, value |-> hp[d].elements[i + 1]]

\* QCborContainerPrivate::detach(d, reserve): d itself when d has one owner,
\* else a clone of d that has no owner yet; null when the clone cannot be
\* allocated (ok = FALSE)
containerDetach(hp, d, reserve, ok) ==
    IF hp[d].ref = 1 THEN [heap |-> hp, ptr |-> d]
    ELSE IF ~ok THEN [heap |-> hp, ptr |-> NULL]
    ELSE LET u == FreshCell(hp)
         IN [heap |-> [hp EXCEPT ![u] = NewContainer(hp[d].elements)], ptr |-> u]

\* ---- QExplicitlySharedDataPointer<QCborContainerPrivate> ----
\* ref.deref(), and delete when the count reaches zero
Deref(hp, d) ==
    IF d = NULL THEN hp
    ELSE IF hp[d].ref <= 1 THEN [hp EXCEPT ![d] = FreeCell]
    ELSE [hp EXCEPT ![d].ref = @ - 1]
\* ref.ref()
RefUp(hp, d) == IF d = NULL THEN hp ELSE [hp EXCEPT ![d].ref = @ + 1]
\* operator=(T *o): take a reference on o, drop the reference on the old pointee
Reset(s, h, o) ==
    IF o = s.a[h] THEN s
    ELSE [s EXCEPT !.a[h] = o, !.heap = Deref(RefUp(s.heap, o), s.a[h])]

\* ---- the outcome of one call ----
\* a, heap: the handles and the heap after the call; ret: the return value;
\* editRef: the largest reference count a container had at the moment a
\* structural edit (insertAt, removeAt, replaceAt, extractAt) was applied to
\* it, 0 when the call made no edit; detachFailed: the container's detach
\* returned null; crashed: the call dereferenced a null container pointer
Outcome(pa, hp) ==
    [a |-> pa, heap |-> hp, ret |-> Void, editRef |-> 0,
     detachFailed |-> FALSE, crashed |-> FALSE]
\* the reference count the edit of s.a[h] sees
Edited(s, h) == Max(s.editRef, s.heap[s.a[h]].ref)

\* a null container pointer was dereferenced: the process is gone
Crash(s) == [s EXCEPT !.crashed = TRUE]

\* ---- QJsonArray: the read methods ----
\* QJsonArray::size
size(pa, hp, h) == IF pa[h] # NULL THEN count(hp, pa[h]) ELSE 0
\* isEmpty that tests the pointer alone
isEmptyPointerOnly(pa, hp, h) == pa[h] = NULL
\* QJsonArray::isEmpty
isEmpty(pa, hp, h) == pa[h] = NULL \/ count(hp, pa[h]) = 0
\* at that answers an index past the end with Null
atNullPastEnd(pa, hp, h, i) ==
    IF pa[h] = NULL \/ i < 0 THEN Undefined
    ELSE IF i >= count(hp, pa[h]) THEN JsonNull
    ELSE fromTrustedCbor(valueAt(hp, pa[h], i))
\* QJsonArray::at
at(pa, hp, h, i) ==
    IF pa[h] = NULL \/ i < 0 \/ i >= count(hp, pa[h])
    THEN Undefined
    ELSE fromTrustedCbor(valueAt(hp, pa[h], i))
\* QJsonArray::first
first(pa, hp, h) == at(pa, hp, h, 0)
\* last that reads one past the last element
lastPastEnd(pa, hp, h) == at(pa, hp, h, IF pa[h] # NULL THEN count(hp, pa[h]) ELSE 0)
\* QJsonArray::last
last(pa, hp, h) == at(pa, hp, h, IF pa[h] # NULL THEN count(hp, pa[h]) - 1 ELSE 0)
\* QJsonArray::operator[](qsizetype i) const
operatorSubscriptConst(pa, hp, h, i) == at(pa, hp, h, i)
\* QJsonArray::contains
contains(pa, hp, h, v) == \E i \in 0..(size(pa, hp, h) - 1) : at(pa, hp, h, i) = v
\* comparesEqual with the negation lost in the branch for a null lhs
comparesEqualLostNot(pa, hp, lhs, rhs) ==
    IF pa[lhs] = pa[rhs] THEN TRUE
    ELSE IF pa[lhs] = NULL THEN count(hp, pa[rhs]) # 0
    ELSE IF pa[rhs] = NULL THEN count(hp, pa[lhs]) = 0
    ELSE IF count(hp, pa[lhs]) # count(hp, pa[rhs]) THEN FALSE
    ELSE \A i \in 0..(count(hp, pa[lhs]) - 1) :
             valueAt(hp, pa[lhs], i) = valueAt(hp, pa[rhs], i)
\* comparesEqual(const QJsonArray &, const QJsonArray &)
comparesEqual(pa, hp, lhs, rhs) ==
    IF pa[lhs] = pa[rhs] THEN TRUE
    ELSE IF pa[lhs] = NULL THEN count(hp, pa[rhs]) = 0
    ELSE IF pa[rhs] = NULL THEN count(hp, pa[lhs]) = 0
    ELSE IF count(hp, pa[lhs]) # count(hp, pa[rhs]) THEN FALSE
    ELSE \A i \in 0..(count(hp, pa[lhs]) - 1) :
             valueAt(hp, pa[lhs], i) = valueAt(hp, pa[rhs], i)

\* ---- hashing ----
\* the seeds qHash is called with
Seeds == {0, 5}
\* x ^ y on n-bit numbers
RECURSIVE BitXor(_, _, _)
BitXor(x, y, n) ==
    IF n = 0 THEN 0
    ELSE (((x % 2) + (y % 2)) % 2) + 2 * BitXor(x \div 2, y \div 2, n - 1)
\* qHash(const QJsonValue &): a number for the type and the payload of a value
valueHash(v) ==
    (CASE v.type = "Undefined" -> 0
       [] v.type = "Null" -> 1
       [] v.type = "Double" -> 2
       [] v.type = "String" -> 3
       [] OTHER -> 4)
    + 8 * (CASE v.v = "" -> 0 [] v.v = "1" -> 1 [] v.v = "x" -> 2 [] OTHER -> 3)
\* QtPrivate::QHashCombine: seed ^ (qHash(t) + 0x9e3779b9 + (seed << 6) + (seed >> 2)),
\* with the low 16 bits of the constant
hashCombine(seed, t) ==
    BitXor(seed, (valueHash(t) + 31161 + seed * 64 + (seed \div 4)) % (2 ^ HashBits),
           HashBits)
\* qHashRange(begin, end, seed) over the const iterators of handle h, which
\* read the elements with at()
RECURSIVE qHashRange(_, _, _, _, _, _)
qHashRange(pa, hp, h, begin, end, seed) ==
    IF begin >= end THEN seed
    ELSE qHashRange(pa, hp, h, begin + 1, end, hashCombine(seed, at(pa, hp, h, begin)))
\* a hash of the container pointer in place of the elements
qHashOfPointer(pa, hp, h, seed) == BitXor(seed, (pa[h] + 31161) % (2 ^ HashBits), HashBits)
\* qHash(const QJsonArray &array, size_t seed)
qHash(pa, hp, h, seed) == qHashRange(pa, hp, h, 0, size(pa, hp, h), seed)

\* ---- QJsonArray: detach and the mutating methods ----
\* the container pointer handed back as it is, shared or not
detachedContainerShared(pa, hp, h, reserve, ok) == [heap |-> hp, ptr |-> pa[h]]
\* the right-hand side of the assignment in QJsonArray::detach:
\* a->detach(a.data(), reserve ? reserve : size())
detachedContainer(pa, hp, h, reserve, ok) ==
    containerDetach(hp, pa[h], IF reserve # 0 THEN reserve ELSE size(pa, hp, h), ok)
\* detach that does nothing
detachSkipped(s, h, reserve, ok) == s
\* detach that clones the container but does not assign the clone to a
detachResultDropped(s, h, reserve, ok) ==
    IF s.a[h] = NULL THEN s
    ELSE LET r == detachedContainer(s.a, s.heap, h, reserve, ok)
         IN [s EXCEPT !.heap = r.heap]
\* QJsonArray::detach(reserve); its bool result is s.detachFailed negated
detach(s, h, reserve, ok) ==
    IF s.a[h] = NULL THEN s
    ELSE LET r == detachedContainer(s.a, s.heap, h, reserve, ok)
         IN [Reset([s EXCEPT !.heap = r.heap], h, r.ptr)
                EXCEPT !.detachFailed = (r.ptr = NULL)]
\* removeAt that edits the container without detaching first
removeAtInPlace(pa, hp, h, i, ok) ==
    IF pa[h] = NULL \/ i < 0 \/ i >= count(hp, pa[h]) THEN Outcome(pa, hp)
    ELSE LET s == Outcome(pa, hp)
         IN [s EXCEPT !.heap = containerRemoveAt(s.heap, s.a[h], i),
                      !.editRef = Edited(s, h)]
\* removeAt that removes the last element whatever the index
removeAtLast(pa, hp, h, i, ok) ==
    IF pa[h] = NULL \/ i < 0 \/ i >= count(hp, pa[h]) THEN Outcome(pa, hp)
    ELSE LET s == detach(Outcome(pa, hp), h, 0, ok)
         IN IF s.a[h] = NULL THEN Crash(s)
            ELSE [s EXCEPT !.heap = containerRemoveAt(s.heap, s.a[h],
                                                      count(s.heap, s.a[h]) - 1),
                           !.editRef = Edited(s, h)]
\* removeAt that detaches before it checks the index
removeAtDetachFirst(pa, hp, h, i, ok) ==
    LET s == detach(Outcome(pa, hp), h, 0, ok)
    IN IF s.a[h] = NULL \/ i < 0 \/ i >= count(s.heap, s.a[h]) THEN s
       ELSE [s EXCEPT !.heap = containerRemoveAt(s.heap, s.a[h], i),
                      !.editRef = Edited(s, h)]
\* QJsonArray::removeAt
removeAt(pa, hp, h, i, ok) ==
    IF pa[h] = NULL \/ i < 0 \/ i >= count(hp, pa[h]) THEN Outcome(pa, hp)
    ELSE LET s == detach(Outcome(pa, hp), h, 0, ok)
         IN IF s.a[h] = NULL THEN Crash(s)
            ELSE [s EXCEPT !.heap = containerRemoveAt(s.heap, s.a[h], i),
                           !.editRef = Edited(s, h)]
\* takeAt that reads the value after the removal
takeAtReadsLate(pa, hp, h, i, ok) ==
    IF pa[h] = NULL \/ i < 0 \/ i >= count(hp, pa[h])
    THEN [Outcome(pa, hp) EXCEPT !.ret = Undefined]
    ELSE LET s == detach(Outcome(pa, hp), h, 0, ok)
         IN IF s.a[h] = NULL THEN Crash(s)
            ELSE LET hp2 == containerRemoveAt(s.heap, s.a[h], i)
                 IN [s EXCEPT !.heap = hp2,
                              !.editRef = Edited(s, h),
                              !.ret = at(s.a, hp2, h, i)]
\* QJsonArray::takeAt
takeAt(pa, hp, h, i, ok) ==
    IF pa[h] = NULL \/ i < 0 \/ i >= count(hp, pa[h])
    THEN [Outcome(pa, hp) EXCEPT !.ret = Undefined]
    ELSE LET s == detach(Outcome(pa, hp), h, 0, ok)
         IN IF s.a[h] = NULL THEN Crash(s)
            ELSE LET x == extractAt(s.heap, s.a[h], i)
                 IN [s EXCEPT !.heap = containerRemoveAt(x.heap, s.a[h], i),
                              !.editRef = Edited(s, h),
                              !.ret = fromTrustedCbor(x.value)]
\* insert that puts the value at the end whatever the index
insertAtEnd(pa, hp, h, i, value, ok) ==
    LET s == IF pa[h] # NULL
             THEN detach(Outcome(pa, hp), h, count(hp, pa[h]) + 1, ok)
             ELSE LET u == FreshCell(hp)
                  IN Reset(Outcome(pa, [hp EXCEPT ![u] = NewContainer(<<>>)]), h, u)
    IN IF s.a[h] = NULL THEN Crash(s)
       ELSE [s EXCEPT !.heap = insertAt(s.heap, s.a[h], count(s.heap, s.a[h]),
                                        IF value.type = "Undefined" THEN CborNull
                                        ELSE fromJsonValue(value)),
                      !.editRef = Edited(s, h)]
\* insert that stores an Undefined value as it is
insertKeepsUndefined(pa, hp, h, i, value, ok) ==
    LET s == IF pa[h] # NULL
             THEN detach(Outcome(pa, hp), h, count(hp, pa[h]) + 1, ok)
             ELSE LET u == FreshCell(hp)
                  IN Reset(Outcome(pa, [hp EXCEPT ![u] = NewContainer(<<>>)]), h, u)
    IN IF s.a[h] = NULL THEN Crash(s)
       ELSE [s EXCEPT !.heap = insertAt(s.heap, s.a[h], i, fromJsonValue(value)),
                      !.editRef = Edited(s, h)]
\* insert that puts the value in front whatever the index
insertAtFront(pa, hp, h, i, value, ok) ==
    LET s == IF pa[h] # NULL
             THEN detach(Outcome(pa, hp), h, count(hp, pa[h]) + 1, ok)
             ELSE LET u == FreshCell(hp)
                  IN Reset(Outcome(pa, [hp EXCEPT ![u] = NewContainer(<<>>)]), h, u)
    IN IF s.a[h] = NULL THEN Crash(s)
       ELSE [s EXCEPT !.heap = insertAt(s.heap, s.a[h], 0,
                                        IF value.type = "Undefined" THEN CborNull
                                        ELSE fromJsonValue(value)),
                      !.editRef = Edited(s, h)]
\* QJsonArray::insert
insert(pa, hp, h, i, value, ok) ==
    LET s == IF pa[h] # NULL
             THEN detach(Outcome(pa, hp), h, count(hp, pa[h]) + 1, ok)
             ELSE LET u == FreshCell(hp)
                  IN Reset(Outcome(pa, [hp EXCEPT ![u] = NewContainer(<<>>)]), h, u)
    IN IF s.a[h] = NULL THEN Crash(s)
       ELSE [s EXCEPT !.heap = insertAt(s.heap, s.a[h], i,
                                        IF value.type = "Undefined" THEN CborNull
                                        ELSE fromJsonValue(value)),
                      !.editRef = Edited(s, h)]
\* QJsonArray::prepend
prepend(pa, hp, h, value, ok) == insert(pa, hp, h, 0, value, ok)
\* append that inserts in front
appendInFront(pa, hp, h, value, ok) == insert(pa, hp, h, 0, value, ok)
\* QJsonArray::append
append(pa, hp, h, value, ok) ==
    insert(pa, hp, h, IF pa[h] # NULL THEN count(hp, pa[h]) ELSE 0, value, ok)
\* replace that stores Null for an Undefined value, as insert does
replaceUndefinedAsNull(pa, hp, h, i, value, ok) ==
    LET s == detach(Outcome(pa, hp), h, 0, ok)
    IN IF s.a[h] = NULL THEN Crash(s)
       ELSE [s EXCEPT !.heap = replaceAt(s.heap, s.a[h], i,
                                         IF value.type = "Undefined" THEN CborNull
                                         ELSE fromJsonValue(value)),
                      !.editRef = Edited(s, h)]
\* replace that writes into the container without detaching first
replaceInPlace(pa, hp, h, i, value, ok) ==
    LET s == Outcome(pa, hp)
    IN [s EXCEPT !.heap = replaceAt(s.heap, s.a[h], i, fromJsonValue(value)),
                 !.editRef = Edited(s, h)]
\* QJsonArray::replace
replace(pa, hp, h, i, value, ok) ==
    LET s == detach(Outcome(pa, hp), h, 0, ok)
    IN IF s.a[h] = NULL THEN Crash(s)
       ELSE [s EXCEPT !.heap = replaceAt(s.heap, s.a[h], i, fromJsonValue(value)),
                      !.editRef = Edited(s, h)]

\* the proxy for element i of handle h: QJsonValueRef(this, i)
QJsonValueRef(h, i) == [type |-> "QJsonValueRef", a |-> h, index |-> i]
\* operator[] that detaches when the proxy is made
operatorSubscriptDetaching(pa, hp, h, i, ok) ==
    [detach(Outcome(pa, hp), h, 0, ok) EXCEPT !.ret = QJsonValueRef(h, i)]
\* QJsonArray::operator[](qsizetype i), the non-const overload
operatorSubscript(pa, hp, h, i, ok) ==
    [Outcome(pa, hp) EXCEPT !.ret = QJsonValueRef(h, i)]
\* QJsonValueRef::operator=(const QJsonValue &val) on the proxy of an array:
\* a->replace(index, val)
assignToRef(pa, hp, ref, val, ok) == replace(pa, hp, ref.a, ref.index, val, ok)

RECURSIVE initializerListPrepending(_, _, _, _)
RECURSIVE initializerListCtor(_, _, _, _)
RECURSIVE fromStringList(_, _, _, _)
\* the initializer-list constructor with the items put in front one by one
initializerListPrepending(pa, hp, h, args) ==
    IF args = <<>> THEN Outcome(pa, hp)
    ELSE LET s == prepend(pa, hp, h, Head(args), TRUE)
         IN initializerListPrepending(s.a, s.heap, h, Tail(args))
\* QJsonArray::QJsonArray(std::initializer_list<QJsonValue> args):
\* for (const auto &arg : args) append(arg);
initializerListCtor(pa, hp, h, args) ==
    IF args = <<>> THEN Outcome(pa, hp)
    ELSE LET s == append(pa, hp, h, Head(args), TRUE)
         IN initializerListCtor(s.a, s.heap, h, Tail(args))
\* QJsonArray::fromStringList: a default-constructed array, then
\* array.append(QJsonValue(*it)) for every string of the list
fromStringList(pa, hp, h, list) ==
    IF list = <<>> THEN Outcome(pa, hp)
    ELSE LET s == append(pa, hp, h, JsonString(Head(list)), TRUE)
         IN fromStringList(s.a, s.heap, h, Tail(list))

\* ---- the program state ----
\* live: the handles that are constructed; a[h]: the container pointer of
\* handle h (NULL for a handle that is not live); heap: the containers;
\* call: the last call and its outcome; crashed: a call dereferenced null;
\* thr: where the two threads of the concurrent specification are in their calls
VARIABLES live, a, heap, call, crashed, thr
vars == <<live, a, heap, call, crashed, thr>>

\* what a reader of handle h sees: the values at(0) .. at(size() - 1)
Contents(pa, hp, h) == [k \in 1..size(pa, hp, h) |-> at(pa, hp, h, k - 1)]
\* index i is inside the array of handle h
InRange(h, i) == 0 <= i /\ i < size(a, heap, h)

\* the heap has room for the container a mutating call on h may allocate
CanDetach(h) == (a[h] = NULL \/ heap[a[h]].ref > 1) => HasFreeCell(heap)

\* the outcomes of the allocation a mutating call on h makes in the container's
\* detach: it allocates only to clone a container that has other owners
AllocOutcomes(h) == IF a[h] # NULL /\ heap[a[h]].ref > 1 THEN BOOLEAN ELSE {TRUE}

\* the indexes calls are made with: below, inside and past every array
Indexes == (0 - 1)..MaxLen
NoHandle == "-"

\* the record of a call: preRef is the reference count of h's container when
\* the call was made (0 when h had none)
Called(op, h, o, i, v, s) ==
    [op |-> op, h |-> h, o |-> o, i |-> i, v |-> v, ret |-> s.ret,
     preRef |-> IF a[h] = NULL THEN 0 ELSE heap[a[h]].ref,
     editRef |-> s.editRef, detachFailed |-> s.detachFailed]
\* the call returns (or crashes) with outcome s
Commit(op, h, o, i, v, s) ==
    /\ a' = s.a
    /\ heap' = s.heap
    /\ crashed' = s.crashed
    /\ call' = Called(op, h, o, i, v, s)
    /\ UNCHANGED thr
\* a read that detaches the handle before it returns r
ReadDetaching(op, h, o, i, v, r) ==
    /\ live' = live
    /\ Commit(op, h, o, i, v, [detach(Outcome(a, heap), h, 0, TRUE) EXCEPT !.ret = r])
\* a read returns r and touches nothing
Read(op, h, o, i, v, r) ==
    /\ call' = Called(op, h, o, i, v, [Outcome(a, heap) EXCEPT !.ret = r])
    /\ UNCHANGED <<live, a, heap, crashed, thr>>

\* no thread is inside a call
ThreadsIdle(pre) ==
    [wpc |-> "idle", wop |-> "-", wi |-> 0, wv |-> Void, u |-> NULL, old |-> NULL,
     editing |-> NULL, rpc |-> "idle", ri |-> 0, rret |-> Void, rdone |-> FALSE,
     pre |-> pre, bad |-> FALSE]
FirstCall ==
    [op |-> "QJsonArray", h |-> "h1", o |-> NoHandle, i |-> 0, v |-> Void,
     ret |-> Void, preRef |-> 0, editRef |-> 0, detachFailed |-> FALSE]

Init ==
    /\ live = {"h1"}
    /\ a = [h \in Handles |-> NULL]
    /\ heap = [d \in Backends |-> FreeCell]
    /\ crashed = FALSE
    /\ call = FirstCall
    /\ thr = ThreadsIdle(<<>>)

\* a default constructor that allocates an empty container at once
DefaultConstructAllocating(h) ==
    /\ ~crashed /\ h \notin live
    /\ live' = live \cup {h}
    /\ Commit("QJsonArray", h, NoHandle, 0, Void,
              Reset(Outcome(a, [heap EXCEPT ![FreshCell(heap)] = NewContainer(<<>>)]),
                    h, FreshCell(heap)))
\* QJsonArray::QJsonArray()
DefaultConstruct(h) ==
    /\ ~crashed /\ h \notin live
    /\ live' = live \cup {h}
    /\ Commit("QJsonArray", h, NoHandle, 0, Void, Outcome(a, heap))
\* QJsonArray::QJsonArray(const QJsonArray &other)
CopyConstruct(h, other) ==
    /\ ~crashed /\ h \notin live /\ other \in live
    /\ live' = live \cup {h}
    /\ Commit("copy", h, other, 0, Void,
              Outcome([a EXCEPT ![h] = a[other]], RefUp(heap, a[other])))
\* a move constructor that copies: the source keeps its container
MoveConstructAsCopy(h, other) ==
    /\ ~crashed /\ h \notin live /\ other \in live
    /\ live' = live \cup {h}
    /\ Commit("move", h, other, 0, Void,
              Outcome([a EXCEPT ![h] = a[other]], RefUp(heap, a[other])))
\* QJsonArray::QJsonArray(QJsonArray &&other)
MoveConstruct(h, other) ==
    /\ ~crashed /\ h \notin live /\ other \in live
    /\ live' = live \cup {h}
    /\ Commit("move", h, other, 0, Void,
              Outcome([a EXCEPT ![h] = a[other], ![other] = NULL], heap))
\* operator= that copies the pointer and leaves the reference counts alone
CopyAssignNoRef(h, other) ==
    /\ ~crashed /\ h \in live /\ other \in live
    /\ live' = live
    /\ Commit("operator=", h, other, 0, Void, Outcome([a EXCEPT ![h] = a[other]], heap))
\* QJsonArray::operator=(const QJsonArray &other)
CopyAssign(h, other) ==
    /\ ~crashed /\ h \in live /\ other \in live
    /\ live' = live
    /\ Commit("operator=", h, other, 0, Void, Reset(Outcome(a, heap), h, a[other]))
\* QJsonArray::~QJsonArray()
Destroy(h) ==
    /\ ~crashed /\ h \in live
    /\ live' = live \ {h}
    /\ Commit("~QJsonArray", h, NoHandle, 0, Void, Reset(Outcome(a, heap), h, NULL))

Size(h) ==
    /\ ~crashed /\ h \in live
    /\ Read("size", h, NoHandle, 0, Void, size(a, heap, h))
IsEmpty(h) ==
    /\ ~crashed /\ h \in live
    /\ Read("isEmpty", h, NoHandle, 0, Void, isEmpty(a, heap, h))
At(h, i) ==
    /\ ~crashed /\ h \in live
    /\ Read("at", h, NoHandle, i, Void, at(a, heap, h, i))
First(h) ==
    /\ ~crashed /\ h \in live
    /\ Read("first", h, NoHandle, 0, Void, first(a, heap, h))
Last(h) ==
    /\ ~crashed /\ h \in live
    /\ Read("last", h, NoHandle, 0, Void, last(a, heap, h))
\* QJsonArray::operator[](qsizetype i) const
ConstSubscript(h, i) ==
    /\ ~crashed /\ h \in live
    /\ Read("operator[] const", h, NoHandle, i, Void, operatorSubscriptConst(a, heap, h, i))
Contains(h, v) ==
    /\ ~crashed /\ h \in live
    /\ Read("contains", h, NoHandle, 0, v, contains(a, heap, h, v))
\* operator==(const QJsonArray &lhs, const QJsonArray &rhs)
Equals(lhs, rhs) ==
    /\ ~crashed /\ lhs \in live /\ rhs \in live
    /\ Read("operator==", lhs, rhs, 0, Void, comparesEqual(a, heap, lhs, rhs))

\* qHash(const QJsonArray &array, size_t seed)
QHash(h, seed) ==
    /\ ~crashed /\ h \in live
    /\ Read("qHash", h, NoHandle, seed, Void, qHash(a, heap, h, seed))

\* the caller keeps the precondition Q_ASSERT(i >= 0 && i <= a->elements.size())
Insert(h, i, v, ok) ==
    /\ ~crashed /\ h \in live
    /\ 0 <= i /\ i <= size(a, heap, h) /\ size(a, heap, h) < MaxLen
    /\ CanDetach(h)
    /\ live' = live
    /\ Commit("insert", h, NoHandle, i, v, insert(a, heap, h, i, v, ok))
PrependValue(h, v, ok) ==
    /\ ~crashed /\ h \in live
    /\ size(a, heap, h) < MaxLen
    /\ CanDetach(h)
    /\ live' = live
    /\ Commit("prepend", h, NoHandle, 0, v, prepend(a, heap, h, v, ok))
AppendValue(h, v, ok) ==
    /\ ~crashed /\ h \in live
    /\ size(a, heap, h) < MaxLen
    /\ CanDetach(h)
    /\ live' = live
    /\ Commit("append", h, NoHandle, size(a, heap, h), v, append(a, heap, h, v, ok))
RemoveAt(h, i, ok) ==
    /\ ~crashed /\ h \in live
    /\ CanDetach(h)
    /\ live' = live
    /\ Commit("removeAt", h, NoHandle, i, Void, removeAt(a, heap, h, i, ok))
TakeAt(h, i, ok) ==
    /\ ~crashed /\ h \in live
    /\ CanDetach(h)
    /\ live' = live
    /\ Commit("takeAt", h, NoHandle, i, Void, takeAt(a, heap, h, i, ok))
\* the caller keeps the precondition Q_ASSERT(a && i >= 0 && i < a->elements.size())
Replace(h, i, v, ok) ==
    /\ ~crashed /\ h \in live
    /\ a[h] # NULL /\ 0 <= i /\ i < size(a, heap, h)
    /\ CanDetach(h)
    /\ live' = live
    /\ Commit("replace", h, NoHandle, i, v, replace(a, heap, h, i, v, ok))

\* the caller keeps the precondition Q_ASSERT(a && i >= 0 && i < a->elements.size())
Subscript(h, i, ok) ==
    /\ ~crashed /\ h \in live
    /\ a[h] # NULL /\ 0 <= i /\ i < size(a, heap, h)
    /\ live' = live
    /\ Commit("operator[]", h, NoHandle, i, Void, operatorSubscript(a, heap, h, i, ok))
\* arr[i] = v: the proxy the last call returned is assigned to
AssignThroughRef(v, ok) ==
    /\ ~crashed /\ call.op = "operator[]"
    /\ CanDetach(call.ret.a)
    /\ live' = live
    /\ Commit("operator[]=", call.ret.a, NoHandle, call.ret.index, v,
              assignToRef(a, heap, call.ret, v, ok))

Next ==
    \/ \E h \in Handles : DefaultConstruct(h)
    \/ \E h, other \in Handles : CopyConstruct(h, other)
    \/ \E h, other \in Handles : MoveConstruct(h, other)
    \/ \E h, other \in Handles : CopyAssign(h, other)
    \/ \E h \in Handles : Destroy(h)
    \/ \E h \in Handles : Size(h)
    \/ \E h \in Handles : IsEmpty(h)
    \/ \E h \in Handles, i \in Indexes : At(h, i)
    \/ \E h \in Handles : First(h)
    \/ \E h \in Handles : Last(h)
    \/ \E h \in Handles, v \in JsonValues : Contains(h, v)
    \/ \E lhs, rhs \in Handles : Equals(lhs, rhs)
    \/ \E h \in Handles : \E i \in Indexes, v \in JsonValues, ok \in AllocOutcomes(h) : Insert(h, i, v, ok)
    \/ \E h \in Handles : \E v \in JsonValues, ok \in AllocOutcomes(h) : PrependValue(h, v, ok)
    \/ \E h \in Handles : \E v \in JsonValues, ok \in AllocOutcomes(h) : AppendValue(h, v, ok)
    \/ \E h \in Handles : \E i \in Indexes, ok \in AllocOutcomes(h) : RemoveAt(h, i, ok)
    \/ \E h \in Handles : \E i \in Indexes, ok \in AllocOutcomes(h) : TakeAt(h, i, ok)
    \/ \E h \in Handles : \E i \in Indexes, v \in JsonValues, ok \in AllocOutcomes(h) : Replace(h, i, v, ok)

Spec == Init /\ [][Next]_vars

\* ---- the array with its proxies, and the array with its hash ----
\* the constructors, the assignment and the destructor
Lifecycle ==
    \/ \E h \in Handles : DefaultConstruct(h)
    \/ \E h, other \in Handles : CopyConstruct(h, other)
    \/ \E h, other \in Handles : MoveConstruct(h, other)
    \/ \E h, other \in Handles : CopyAssign(h, other)
    \/ \E h \in Handles : Destroy(h)
\* the mutating methods
Mutation ==
    \/ \E h \in Handles : \E i \in Indexes, v \in JsonValues, ok \in AllocOutcomes(h) : Insert(h, i, v, ok)
    \/ \E h \in Handles : \E v \in JsonValues, ok \in AllocOutcomes(h) : PrependValue(h, v, ok)
    \/ \E h \in Handles : \E v \in JsonValues, ok \in AllocOutcomes(h) : AppendValue(h, v, ok)
    \/ \E h \in Handles : \E i \in Indexes, ok \in AllocOutcomes(h) : RemoveAt(h, i, ok)
    \/ \E h \in Handles : \E i \in Indexes, ok \in AllocOutcomes(h) : TakeAt(h, i, ok)
    \/ \E h \in Handles : \E i \in Indexes, v \in JsonValues, ok \in AllocOutcomes(h) : Replace(h, i, v, ok)
\* the array read with at() and written through the proxies of operator[]
NextRef ==
    \/ Lifecycle
    \/ Mutation
    \/ \E h \in Handles, i \in Indexes : At(h, i)
    \/ \E h \in Handles : \E i \in Indexes, ok \in AllocOutcomes(h) : Subscript(h, i, ok)
    \/ \E v \in JsonValues, ok \in BOOLEAN : AssignThroughRef(v, ok)
SpecRef == Init /\ [][NextRef]_vars
\* the array compared and hashed
NextHash ==
    \/ Lifecycle
    \/ Mutation
    \/ \E lhs, rhs \in Handles : Equals(lhs, rhs)
    \/ \E h \in Handles, seed \in Seeds : QHash(h, seed)
SpecHash == Init /\ [][NextHash]_vars
\* the array with every read method, the const operator[] among them
NextRead ==
    \/ Next
    \/ \E h \in Handles, i \in Indexes : ConstSubscript(h, i)
SpecRead == Init /\ [][NextRead]_vars

\* ---- three handles that come to share one container ----
Handles3 == Handles \cup {"h3"}
\* the values the three handles are edited with
ShareValues == {JsonNull, JsonDouble}
InitShare ==
    /\ live = {"h1"}
    /\ a = [h \in Handles3 |-> NULL]
    /\ heap = [d \in Backends |-> FreeCell]
    /\ crashed = FALSE
    /\ call = FirstCall
    /\ thr = ThreadsIdle(<<>>)
\* the handles other than h are all on one container (or all on none): h is
\* the one handle of the set that is edited
OthersShare(h) == \A o1 \in live \ {h}, o2 \in live \ {h} : a[o1] = a[o2]
NextShare ==
    \/ \E h, other \in Handles3 : CopyConstruct(h, other)
    \/ \E h, other \in Handles3 : MoveConstruct(h, other)
    \/ \E h, other \in Handles3 : CopyAssign(h, other)
    \/ \E h \in Handles3 : \E i \in Indexes, v \in ShareValues, ok \in AllocOutcomes(h) :
           OthersShare(h) /\ Insert(h, i, v, ok)
    \/ \E h \in Handles3 : \E v \in ShareValues, ok \in AllocOutcomes(h) :
           OthersShare(h) /\ PrependValue(h, v, ok)
    \/ \E h \in Handles3 : \E v \in ShareValues, ok \in AllocOutcomes(h) :
           OthersShare(h) /\ AppendValue(h, v, ok)
    \/ \E h \in Handles3 : \E i \in Indexes, ok \in AllocOutcomes(h) :
           OthersShare(h) /\ RemoveAt(h, i, ok)
    \/ \E h \in Handles3 : \E i \in Indexes, ok \in AllocOutcomes(h) :
           OthersShare(h) /\ TakeAt(h, i, ok)
    \/ \E h \in Handles3 : \E i \in Indexes, v \in ShareValues, ok \in AllocOutcomes(h) :
           OthersShare(h) /\ Replace(h, i, v, ok)
SpecShare == InitShare /\ [][NextShare]_vars

\* ---- arrays built from lists ----
\* the values and the strings lists are made of
ListValues == JsonValues \cup {JsonString("x")}
ListStrings == {"x", "y"}
ListsOf(S) == UNION {[1..n -> S] : n \in 0..MaxLen}
\* QJsonArray::QJsonArray(std::initializer_list<QJsonValue> args)
InitListConstruct(h, args) ==
    /\ ~crashed /\ h \notin live
    /\ args # <<>> => HasFreeCell(heap)
    /\ live' = live \cup {h}
    /\ Commit("initializer_list", h, NoHandle, 0, args, initializerListCtor(a, heap, h, args))
\* QJsonArray::fromStringList(const QStringList &list)
FromStringList(h, list) ==
    /\ ~crashed /\ h \notin live
    /\ list # <<>> => HasFreeCell(heap)
    /\ live' = live \cup {h}
    /\ Commit("fromStringList", h, NoHandle, 0, list, fromStringList(a, heap, h, list))

NextBuild ==
    \/ \E h \in Handles, args \in ListsOf(ListValues) : InitListConstruct(h, args)
    \/ \E h \in Handles, list \in ListsOf(ListStrings) : FromStringList(h, list)
    \/ \E h \in Handles : Destroy(h)
    \/ \E h \in Handles : Size(h)
    \/ \E h \in Handles, i \in Indexes : At(h, i)

SpecBuild == Init /\ [][NextBuild]_vars

\* ---- two threads: a writer that mutates through its handle and a reader ----
\* ---- that reads through a copy of it, one memory access group per step  ----
Writer == "h1"
Reader == "h2"
\* the encoded values insert and replace store
StoredValues == {CborNull} \cup {fromJsonValue(v) : v \in JsonValues}
StoredSeqs == UNION {[1..n -> StoredValues] : n \in 0..MaxLen}

\* both handles are live and share one container
InitConc ==
    /\ live = {Writer, Reader}
    /\ a = [h \in Handles |-> 1]
    /\ \E elems \in StoredSeqs :
          heap = [d \in Backends |->
                     IF d = 1 THEN [elements |-> elems, ref |-> 2, freed |-> FALSE]
                     ELSE FreeCell]
    /\ crashed = FALSE
    /\ call = FirstCall
    /\ thr = ThreadsIdle(Contents(a, heap, Reader))

\* the writer enters removeAt, takeAt, insert or replace and passes the
\* method's own checks on its handle
WBegin(op, i, v) ==
    /\ ~crashed /\ thr.wpc = "idle" /\ a[Writer] # NULL
    /\ \/ op \in {"removeAt", "takeAt", "replace"} /\ InRange(Writer, i) /\ v = Void
       \/ /\ op = "insert" /\ 0 <= i /\ i <= size(a, heap, Writer)
          /\ size(a, heap, Writer) < MaxLen /\ v # Void
    /\ thr' = [thr EXCEPT !.wpc = "detach", !.wop = op, !.wi = i, !.wv = v]
    /\ UNCHANGED <<live, a, heap, call, crashed>>
\* QJsonArray::detach: the call a->detach(a.data(), reserve)
WDetach(ok) ==
    /\ ~crashed /\ thr.wpc = "detach" /\ CanDetach(Writer)
    /\ LET r == detachedContainer(a, heap, Writer,
                                  IF thr.wop = "insert" THEN size(a, heap, Writer) + 1 ELSE 0,
                                  ok)
       IN /\ heap' = r.heap
          /\ thr' = [thr EXCEPT !.wpc = "assign", !.u = r.ptr]
    /\ UNCHANGED <<live, a, call, crashed>>
\* QJsonArray::detach: a = ..., first half: take a reference on the new pointee
WAssignRef ==
    /\ ~crashed /\ thr.wpc = "assign"
    /\ IF thr.u = a[Writer]
       THEN /\ thr' = [thr EXCEPT !.wpc = "edit"]
            /\ heap' = heap
       ELSE /\ thr' = [thr EXCEPT !.wpc = "swap"]
            /\ heap' = RefUp(heap, thr.u)
    /\ UNCHANGED <<live, a, call, crashed>>
\* QJsonArray::detach: a = ..., the pointer is exchanged
WSwap ==
    /\ ~crashed /\ thr.wpc = "swap"
    /\ a' = [a EXCEPT ![Writer] = thr.u]
    /\ thr' = [thr EXCEPT !.wpc = "deref", !.old = a[Writer]]
    /\ UNCHANGED <<live, heap, call, crashed>>
\* QJsonArray::detach: a = ..., second half: drop the reference on the old pointee
WDeref ==
    /\ ~crashed /\ thr.wpc = "deref"
    /\ heap' = Deref(heap, thr.old)
    /\ thr' = [thr EXCEPT !.wpc = "edit", !.old = NULL]
    /\ UNCHANGED <<live, a, call, crashed>>
\* the structural edit starts: the container is inconsistent until it ends
WEditBegin ==
    /\ ~crashed /\ thr.wpc = "edit"
    /\ IF a[Writer] = NULL
       THEN /\ crashed' = TRUE
            /\ thr' = thr
       ELSE /\ crashed' = FALSE
            /\ thr' = [thr EXCEPT !.wpc = "editing", !.editing = a[Writer]]
    /\ UNCHANGED <<live, a, heap, call>>
\* the structural edit ends and the method returns
WEditEnd ==
    /\ ~crashed /\ thr.wpc = "editing"
    /\ LET d == a[Writer]
           i == thr.wi
       IN heap' = CASE thr.wop = "removeAt" -> containerRemoveAt(heap, d, i)
                    [] thr.wop = "takeAt" -> containerRemoveAt(extractAt(heap, d, i).heap, d, i)
                    [] thr.wop = "replace" -> replaceAt(heap, d, i, fromJsonValue(thr.wv))
                    [] OTHER -> insertAt(heap, d, i,
                                         IF thr.wv.type = "Undefined" THEN CborNull
                                         ELSE fromJsonValue(thr.wv))
    /\ thr' = [thr EXCEPT !.wpc = "idle", !.editing = NULL, !.u = NULL]
    /\ UNCHANGED <<live, a, call, crashed>>

\* the reader looks at container d: it must be neither freed nor under edit
Torn(d) == d # NULL /\ (heap[d].freed \/ thr.editing = d)
\* the reader enters at(i)
RBegin(i) ==
    /\ ~crashed /\ thr.rpc = "idle"
    /\ thr' = [thr EXCEPT !.rpc = "check", !.ri = i, !.rdone = FALSE, !.rret = Void]
    /\ UNCHANGED <<live, a, heap, call, crashed>>
\* QJsonArray::at: if (!a || i < 0 || i >= a->elements.size()) return Undefined
RCheck ==
    /\ ~crashed /\ thr.rpc = "check"
    /\ LET d == a[Reader]
       IN IF d = NULL \/ thr.ri < 0 \/ thr.ri >= count(heap, d)
          THEN thr' = [thr EXCEPT !.rpc = "idle", !.rdone = TRUE, !.rret = Undefined,
                                  !.bad = @ \/ Torn(d)]
          ELSE thr' = [thr EXCEPT !.rpc = "value", !.bad = @ \/ Torn(d)]
    /\ UNCHANGED <<live, a, heap, call, crashed>>
\* QJsonArray::at: return fromTrustedCbor(a->valueAt(i))
RValue ==
    /\ ~crashed /\ thr.rpc = "value"
    /\ LET d == a[Reader]
       IN IF thr.ri >= count(heap, d)
          THEN thr' = [thr EXCEPT !.rpc = "idle", !.rdone = TRUE, !.rret = Undefined,
                                  !.bad = TRUE]
          ELSE thr' = [thr EXCEPT !.rpc = "idle", !.rdone = TRUE,
                                  !.rret = fromTrustedCbor(valueAt(heap, d, thr.ri)),
                                  !.bad = @ \/ Torn(d)]
    /\ UNCHANGED <<live, a, heap, call, crashed>>

NextConc ==
    \/ \E op \in {"removeAt", "takeAt", "replace", "insert"}, i \in Indexes,
          v \in JsonValues \cup {Void} : WBegin(op, i, v)
    \/ \E ok \in AllocOutcomes(Writer) : WDetach(ok)
    \/ WAssignRef
    \/ WSwap
    \/ WDeref
    \/ WEditBegin
    \/ WEditEnd
    \/ \E i \in Indexes : RBegin(i)
    \/ RCheck
    \/ RValue

SpecConc == InitConc /\ [][NextConc]_vars

\* ---- properties ----
MutatingOps == {"insert", "append", "prepend", "replace", "removeAt", "takeAt"}

\* C1: a mutating call on one handle leaves the size and every element of
\* every other handle as they were, whether or not the two shared a container
\* when the call was made
C1_CopyOnWriteIsolation ==
    [][call'.op \in MutatingOps =>
         \A o \in live' \ {call'.h} : Contents(a', heap', o) = Contents(a, heap, o)]_vars
\* h2 was a copy of h1 = [x] and then appended to: h1 = [x], h2 = [x, y]
C1_Witness ==
    /\ call.op = "append" /\ call.h = "h2" /\ call.preRef = 2 /\ ~crashed
    /\ "h1" \in live /\ a["h1"] # a["h2"]
    /\ size(a, heap, "h1") = 1 /\ size(a, heap, "h2") = 2
    /\ at(a, heap, "h1", 0) = at(a, heap, "h2", 0)

\* C2: no call applies a structural edit to a container that has more than
\* one owner at the moment of the edit
C2_NoEditWhileShared == call.editRef <= 1
\* a call on a handle that shared its container edited a container it owned alone
C2_Witness ==
    /\ call.op \in {"removeAt", "replace"} /\ call.preRef = 2 /\ call.editRef = 1
    /\ ~crashed

\* C4: when the container's detach fails, the call does not go on to edit a
\* missing container and the handle keeps the contents it had
C4_DetachFailureLeavesArray ==
    [][call'.detachFailed =>
         /\ ~crashed'
         /\ Contents(a', heap', call'.h) = Contents(a, heap, call'.h)]_vars

\* C5 as stated: after insert(i, v), at(i) returns v and size() has grown by 1,
\* for every value v
C5_InsertThenAtReturnsValue ==
    [][(call'.op = "insert" /\ ~crashed') =>
         /\ at(a', heap', call'.h, call'.i) = call'.v
         /\ size(a', heap', call'.h) = size(a, heap, call'.h) + 1]_vars
\* C5 amended: after insert(i, v), at(i) returns v when v is not Undefined
\* and Null when v is Undefined, and size() has grown by 1
C5_InsertThenAtReturnsStored ==
    [][(call'.op = "insert" /\ ~crashed') =>
         /\ at(a', heap', call'.h, call'.i) =
                (IF call'.v = Undefined THEN JsonNull ELSE call'.v)
         /\ size(a', heap', call'.h) = size(a, heap, call'.h) + 1]_vars
\* a value was inserted in front of an element
C5_Witness ==
    /\ call.op = "insert" /\ ~crashed /\ call.i = 0 /\ call.v = JsonDouble
    /\ size(a, heap, call.h) = 2
    /\ at(a, heap, call.h, 0) = JsonDouble /\ at(a, heap, call.h, 1) = JsonNull

C8_AtOutOfRange ==
    [][(call'.op = "at" /\ ~InRange(call'.h, call'.i)) =>
         /\ call'.ret = Undefined
         /\ UNCHANGED <<live, a, heap>>]_vars
\* at was called with an index past the end of an array that has elements
C8_Witness ==
    /\ call.op = "at" /\ a[call.h] # NULL /\ size(a, heap, call.h) > 0
    /\ call.i >= size(a, heap, call.h) /\ call.ret = Undefined

\* ---- a third array, to compare the handles of a state with ----
Third == "t"
ThirdCell == NumBackends + 1
\* the handles with Third pointing at ptr, the heap with elems in ThirdCell
WithThird(ptr) == [h \in Handles \cup {Third} |-> IF h = Third THEN ptr ELSE a[h]]
HeapWithThird(elems) ==
    [d \in Backends \cup {ThirdCell} |->
        IF d = ThirdCell THEN [elements |-> elems, ref |-> 1, freed |-> FALSE]
        ELSE heap[d]]
\* Third has no container, shares the container of a live handle, or has a
\* container of its own with any elements
ThirdArrays ==
    {<<ptr, <<>>>> : ptr \in {NULL} \cup {a[h] : h \in live}}
        \cup {<<ThirdCell, elems>> : elems \in StoredSeqs}
\* the third arrays that are like a live one: Third has no container, shares
\* one, or has a container of its own that holds nothing, one element, or
\* the elements of the container of a live handle
ThirdArraysNear ==
    {<<ptr, <<>>>> : ptr \in {NULL} \cup {a[h] : h \in live}}
        \cup {<<ThirdCell, elems>> :
                 elems \in {<<>>} \cup {<<e>> : e \in StoredValues}
                           \cup {heap[a[h]].elements : h \in {g \in live : a[g] # NULL}}}
\* same size and equal elements at every index
ElementwiseEqual(pa, hp, l, r) ==
    /\ size(pa, hp, l) = size(pa, hp, r)
    /\ \A i \in 0..(size(pa, hp, l) - 1) : at(pa, hp, l, i) = at(pa, hp, r, i)

\* C9: two arrays compare equal iff they have the same size and equal elements
\* at every index; the comparison is reflexive, symmetric and transitive
\* (an array equal to a third array compares with every array as the third
\* does), whether the handles share a container, have their own, or have none
C9_EqualityIsElementwise ==
    /\ \A l \in live, r \in live :
          /\ comparesEqual(a, heap, l, r) <=> ElementwiseEqual(a, heap, l, r)
          /\ comparesEqual(a, heap, l, l)
          /\ comparesEqual(a, heap, l, r) <=> comparesEqual(a, heap, r, l)
    /\ \A t \in ThirdArraysNear :
          LET pa == WithThird(t[1])
              hp == HeapWithThird(t[2])
          IN /\ comparesEqual(pa, hp, Third, Third)
             /\ \A l \in live :
                   /\ comparesEqual(pa, hp, l, Third) <=> ElementwiseEqual(pa, hp, l, Third)
                   /\ comparesEqual(pa, hp, Third, l) <=> comparesEqual(pa, hp, l, Third)
                   /\ comparesEqual(pa, hp, l, Third) =>
                         \A r \in live :
                             /\ comparesEqual(pa, hp, l, r) <=> comparesEqual(pa, hp, Third, r)
                             /\ comparesEqual(pa, hp, r, l) <=> comparesEqual(pa, hp, r, Third)
\* two handles with containers of their own and the same element compared equal
C9_Witness ==
    /\ call.op = "operator==" /\ call.ret = TRUE /\ call.h # call.o
    /\ a[call.h] # NULL /\ a[call.o] # NULL /\ a[call.h] # a[call.o]
    /\ size(a, heap, call.h) = 1

\* C10: a handle with no container and a handle whose container has no
\* elements answer every read alike: size, isEmpty, at, first, last, contains,
\* equality with each other and equality with any third array
C10_NullAndEmptyAlike ==
    \A n \in live, e \in live :
        (a[n] = NULL /\ a[e] # NULL /\ count(heap, a[e]) = 0) =>
            /\ size(a, heap, n) = size(a, heap, e)
            /\ isEmpty(a, heap, n) = isEmpty(a, heap, e)
            /\ \A i \in Indexes : at(a, heap, n, i) = at(a, heap, e, i)
            /\ first(a, heap, n) = first(a, heap, e)
            /\ last(a, heap, n) = last(a, heap, e)
            /\ \A v \in JsonValues : contains(a, heap, n, v) = contains(a, heap, e, v)
            /\ comparesEqual(a, heap, n, e)
            /\ comparesEqual(a, heap, e, n)
            /\ \A t \in ThirdArrays :
                  LET pa == WithThird(t[1])
                      hp == HeapWithThird(t[2])
                  IN /\ comparesEqual(pa, hp, n, Third) = comparesEqual(pa, hp, e, Third)
                     /\ comparesEqual(pa, hp, Third, n) = comparesEqual(pa, hp, Third, e)
\* a default-constructed handle was compared with one emptied by removeAt
C10_Witness ==
    /\ call.op = "operator==" /\ call.ret = TRUE
    /\ a[call.h] = NULL /\ a[call.o] # NULL /\ count(heap, a[call.o]) = 0

\* C3: while the writer detaches and edits, step by step, every read the
\* reader makes through its own handle returns the contents from before the
\* mutation, and the reader never looks at a container that is freed or under
\* edit
C3_ReaderSeesPreMutation ==
    /\ ~thr.bad
    /\ Contents(a, heap, Reader) = thr.pre
    /\ thr.rdone =>
          thr.rret = (IF 0 <= thr.ri /\ thr.ri < Len(thr.pre)
                      THEN thr.pre[thr.ri + 1] ELSE Undefined)
\* the reader finished reading an element while the writer, detached from the
\* container the two shared, was in the middle of its edit
C3_Witness ==
    /\ thr.rdone /\ thr.ri = 0 /\ thr.rret = JsonDouble
    /\ thr.wpc = "editing" /\ thr.editing # a[Reader]
    /\ heap[a[Reader]].ref = 1

\* C11: removeAt(i) and takeAt(i) with i < 0, i >= size() or no container
\* change nothing: the handle keeps its container, every container keeps its
\* elements and its reference count, the call does not fail, and takeAt
\* returns Undefined
C11_OutOfRangeRemovalIsNoOp ==
    [][(call'.op \in {"removeAt", "takeAt"} /\ ~InRange(call'.h, call'.i)) =>
         /\ UNCHANGED <<live, a, heap, crashed>>
         /\ call'.editRef = 0 /\ ~call'.detachFailed
         /\ call'.op = "takeAt" => call'.ret = Undefined]_vars
\* takeAt was called past the end of an array whose container has two owners
C11_Witness ==
    /\ call.op = "takeAt" /\ call.preRef = 2 /\ call.ret = Undefined
    /\ size(a, heap, call.h) > 0 /\ call.i >= size(a, heap, call.h)
    /\ heap[a[call.h]].ref = 2

\* C12: insert(i, v), append(v) and prepend(v) with v Undefined store Null:
\* at the index of the new element at() returns Null, not Undefined, and
\* size() has grown by one
C12_UndefinedStoredAsNull ==
    [][(call'.op \in {"insert", "append", "prepend"} /\ call'.v = Undefined /\ ~crashed') =>
         /\ at(a', heap', call'.h, call'.i) = JsonNull
         /\ at(a', heap', call'.h, call'.i) # Undefined
         /\ size(a', heap', call'.h) = size(a, heap, call'.h) + 1]_vars
\* Undefined was prepended to an array of one number
C12_Witness ==
    /\ call.op = "prepend" /\ call.v = Undefined /\ ~crashed
    /\ size(a, heap, call.h) = 2
    /\ at(a, heap, call.h, 0) = JsonNull /\ at(a, heap, call.h, 1) = JsonDouble

C14_ReplaceSetsOneElement ==
    [][(call'.op = "replace" /\ ~crashed') =>
         LET h == call'.h
             i == call'.i
             n == size(a, heap, h)
         IN /\ InRange(h, i)
            /\ at(a', heap', h, i) = call'.v
            /\ size(a', heap', h) = n
            /\ \A j \in (0..(n - 1)) \ {i} : at(a', heap', h, j) = at(a, heap, h, j)]_vars
\* the first of two elements was replaced by Undefined and the second stayed
C14_Witness ==
    /\ call.op = "replace" /\ ~crashed /\ call.i = 0 /\ call.v = Undefined
    /\ size(a, heap, call.h) = 2
    /\ at(a, heap, call.h, 0) = Undefined /\ at(a, heap, call.h, 1) = JsonDouble

\* C15: the non-const operator[](i) with a valid i returns a proxy for (handle,
\* i) and changes nothing: the handle keeps its container and every container
\* its elements and reference count.  Only the assignment through the proxy
\* detaches: the handle then has element i set to the assigned value, on a
\* container of its own when the container was shared, and every other element
\* and every other handle read as before
C15_ProxyDetachesOnAssignment ==
    [][/\ call'.op = "operator[]" =>
             /\ UNCHANGED <<live, a, heap, crashed>>
             /\ call'.ret = QJsonValueRef(call'.h, call'.i)
             /\ call'.editRef = 0 /\ ~call'.detachFailed
       /\ (call'.op = "operator[]=" /\ ~crashed') =>
             LET h == call'.h
                 i == call'.i
                 n == size(a, heap, h)
             IN /\ call.op = "operator[]" /\ call.h = h /\ call.i = i
                /\ at(a', heap', h, i) = call'.v
                /\ size(a', heap', h) = n
                /\ \A j \in (0..(n - 1)) \ {i} : at(a', heap', h, j) = at(a, heap, h, j)
                /\ \A o \in live \ {h} : Contents(a', heap', o) = Contents(a, heap, o)
                /\ call'.preRef = 1 => a'[h] = a[h]
                /\ call'.preRef > 1 =>
                      /\ a'[h] # a[h] /\ heap[a'[h]].freed
                      /\ heap'[a'[h]].ref = 1
                      /\ heap'[a[h]].ref = call'.preRef - 1]_vars
\* a number was assigned through the proxy of a handle that shared its
\* container: the other handle still reads Null at that index
C15_Witness ==
    /\ call.op = "operator[]=" /\ call.preRef = 2 /\ ~crashed
    /\ call.v = JsonDouble /\ at(a, heap, call.h, call.i) = JsonDouble
    /\ \E o \in live \ {call.h} :
          /\ a[o] # NULL /\ a[o] # a[call.h] /\ heap[a[o]].ref = 1
          /\ at(a, heap, o, call.i) = JsonNull

\* what at() returns for an element that insert stored for value v
StoredAs(v) ==
    fromTrustedCbor(IF v.type = "Undefined" THEN CborNull ELSE fromJsonValue(v))
\* the call left what insert(i, v) leaves, for some outcome of the allocation
SameAsInsert(i) ==
    \E ok \in BOOLEAN :
        LET r == insert(a, heap, call'.h, i, call'.v, ok)
        IN a' = r.a /\ heap' = r.heap /\ crashed' = r.crashed

\* C16 as stated: append(v) leaves what insert(size(), v) leaves and
\* prepend(v) what insert(0, v) leaves, with and without a container; each
\* append adds the appended value itself behind the elements, so n appends to
\* an empty array give the n appended values in order
C16_AppendAddsTheValue ==
    [][/\ call'.op = "append" => SameAsInsert(size(a, heap, call'.h))
       /\ call'.op = "prepend" => SameAsInsert(0)
       /\ (call'.op = "append" /\ ~crashed') =>
             Contents(a', heap', call'.h) =
                 Append(Contents(a, heap, call'.h), call'.v)]_vars
\* C16 amended: append(v) leaves what insert(size(), v) leaves and prepend(v)
\* what insert(0, v) leaves, with and without a container; each append adds
\* the appended value behind the elements, Null when the value is Undefined,
\* so n appends to an empty array give the n appended values in order with
\* Null in the place of every Undefined
C16_AppendAddsTheStoredValue ==
    [][/\ call'.op = "append" => SameAsInsert(size(a, heap, call'.h))
       /\ call'.op = "prepend" => SameAsInsert(0)
       /\ (call'.op = "append" /\ ~crashed') =>
             Contents(a', heap', call'.h) =
                 Append(Contents(a, heap, call'.h), StoredAs(call'.v))]_vars
\* a number was appended behind a Null to an array that owned its container
C16_Witness ==
    /\ call.op = "append" /\ ~crashed /\ call.v = JsonDouble /\ call.i = 1
    /\ call.preRef = 1
    /\ Contents(a, heap, call.h) = <<JsonNull, JsonDouble>>

\* C17: in every reachable state first() equals at(0) and last() equals
\* at(size() - 1) for every array, both are Undefined on an array with no
\* container or with a container of no elements, and a call of first() or
\* last() returns just that
C17_FirstLastAreAt ==
    /\ \A h \in live :
          /\ first(a, heap, h) = at(a, heap, h, 0)
          /\ last(a, heap, h) = at(a, heap, h, size(a, heap, h) - 1)
          /\ (a[h] = NULL \/ count(heap, a[h]) = 0) =>
                first(a, heap, h) = Undefined /\ last(a, heap, h) = Undefined
    /\ call.op = "first" => call.ret = at(a, heap, call.h, 0)
    /\ call.op = "last" => call.ret = at(a, heap, call.h, size(a, heap, call.h) - 1)
\* last() returned the second of two different elements
C17_Witness ==
    /\ call.op = "last" /\ call.ret = JsonDouble
    /\ size(a, heap, call.h) = 2 /\ at(a, heap, call.h, 0) = JsonNull
    /\ at(a, heap, call.h, 1) = JsonDouble

\* C18: arrays that compare equal hash alike under every seed: any two live
\* handles, and a live handle and any third array; so do two handles on one
\* container, and a handle with no container and one whose container has no
\* elements; a call of qHash returns the hash of the elements under its seed
C18_HashFollowsEquality ==
    LET hashes == [h \in live |-> [seed \in Seeds |-> qHash(a, heap, h, seed)]]
    IN /\ \A l \in live, r \in live :
             /\ comparesEqual(a, heap, l, r) => hashes[l] = hashes[r]
             /\ a[l] = a[r] => hashes[l] = hashes[r]
             /\ (a[l] = NULL /\ a[r] # NULL /\ count(heap, a[r]) = 0) =>
                   hashes[l] = hashes[r]
       /\ \A t \in ThirdArraysNear :
             LET pa == WithThird(t[1])
                 hp == HeapWithThird(t[2])
             IN \A l \in live :
                   comparesEqual(pa, hp, l, Third) =>
                       \A seed \in Seeds : hashes[l][seed] = qHash(pa, hp, Third, seed)
       /\ call.op = "qHash" => call.ret = hashes[call.h][call.i]
\* qHash was called on a handle while another handle, with a container of its
\* own, held equal elements
C18_Witness ==
    /\ call.op = "qHash" /\ call.i = 5
    /\ size(a, heap, call.h) = 2
    /\ \E o \in live \ {call.h} :
          /\ a[o] # NULL /\ a[o] # a[call.h]
          /\ comparesEqual(a, heap, call.h, o)
          /\ call.ret = qHash(a, heap, o, 5)

\* C19 as stated: the array built from an initializer list of n values, or by
\* fromStringList from a list of n strings, has size n and at every index k
\* the k-th item of the list (as a String element for fromStringList)
C19_ListItemsInOrder ==
    [][/\ call'.op = "initializer_list" =>
             /\ size(a', heap', call'.h) = Len(call'.v)
             /\ \A k \in 1..Len(call'.v) : at(a', heap', call'.h, k - 1) = call'.v[k]
       /\ call'.op = "fromStringList" =>
             /\ size(a', heap', call'.h) = Len(call'.v)
             /\ \A k \in 1..Len(call'.v) :
                   at(a', heap', call'.h, k - 1) = JsonString(call'.v[k])]_vars
\* C19 amended: the array built from an initializer list of n values has size
\* n and at every index k the k-th item of the list, Null when that item is
\* Undefined; the array fromStringList builds from a list of n strings has
\* size n and at every index k the k-th string as a String element
C19_ListItemsStoredInOrder ==
    [][/\ call'.op = "initializer_list" =>
             /\ ~crashed'
             /\ size(a', heap', call'.h) = Len(call'.v)
             /\ \A k \in 1..Len(call'.v) :
                   at(a', heap', call'.h, k - 1) = StoredAs(call'.v[k])
       /\ call'.op = "fromStringList" =>
             /\ ~crashed'
             /\ size(a', heap', call'.h) = Len(call'.v)
             /\ \A k \in 1..Len(call'.v) :
                   at(a', heap', call'.h, k - 1) = JsonString(call'.v[k])]_vars
\* an array was built from the initializer list {Undefined, "x"}
C19_Witness ==
    /\ call.op = "initializer_list" /\ call.v = <<Undefined, JsonString("x")>>
    /\ Contents(a, heap, call.h) = <<JsonNull, JsonString("x")>>
    /\ heap[a[call.h]].ref = 1

\* the elements c with the edit of the call op(i, v) applied
EditApplied(op, c, i, v) ==
    CASE op \in {"insert", "append", "prepend"} ->
             SubSeq(c, 1, i) \o <<StoredAs(v)>> \o SubSeq(c, i + 1, Len(c))
      [] op = "replace" -> [c EXCEPT ![i + 1] = v]
      [] op \in {"removeAt", "takeAt"} -> SubSeq(c, 1, i) \o SubSeq(c, i + 2, Len(c))
\* what the call op(i, v) on handle h leaves when every allocation succeeds
OpOutcome(pa, hp, h, op, i, v) ==
    CASE op = "insert" -> insert(pa, hp, h, i, v, TRUE)
      [] op = "append" -> append(pa, hp, h, v, TRUE)
      [] op = "prepend" -> prepend(pa, hp, h, v, TRUE)
      [] op = "replace" -> replace(pa, hp, h, i, v, TRUE)
      [] op = "removeAt" -> removeAt(pa, hp, h, i, TRUE)
      [] op = "takeAt" -> takeAt(pa, hp, h, i, TRUE)
\* the call op(i, v) took handle h from the container it shared in (pa, hp) to
\* a fresh container of its own in s
DetachTransition(pa, hp, h, op, i, v, s) ==
    LET old == pa[h]
        new == s.a[h]
    IN /\ new # NULL /\ new # old /\ hp[new].freed
       /\ ~s.heap[new].freed /\ s.heap[new].ref = 1
       /\ Contents(s.a, s.heap, h) = EditApplied(op, Contents(pa, hp, h), i, v)
       /\ ~s.heap[old].freed /\ s.heap[old].ref = hp[old].ref - 1
       /\ s.heap[old].elements = hp[old].elements
       /\ \A o \in (DOMAIN pa) \ {h} : s.a[o] = pa[o]

\* C20: when insert (append, prepend), replace, or removeAt or takeAt with an
\* index in range is called on a handle whose container has n > 1 owners and
\* the call returns, the handle has a freshly allocated container with one
\* owner that holds the old elements with the edit applied, and the old
\* container has n - 1 owners and its old elements; for the n the handles of
\* the state give, and for one owner more
C20_DetachTransition ==
    [][(/\ call'.op \in MutatingOps /\ call'.preRef > 1 /\ ~crashed'
        /\ call'.op \in {"removeAt", "takeAt"} => InRange(call'.h, call'.i)) =>
         LET h == call'.h
             pa3 == WithThird(a[h])
             hp3 == RefUp(heap, a[h])
         IN /\ DetachTransition(a, heap, h, call'.op, call'.i, call'.v,
                                [a |-> a', heap |-> heap'])
            /\ heap'[a[h]].ref = call'.preRef - 1
            /\ DetachTransition(pa3, hp3, h, call'.op, call'.i, call'.v,
                                OpOutcome(pa3, hp3, h, call'.op, call'.i, call'.v))]_vars
\* takeAt took the only element out of an array that shared its container:
\* the other handle still has the element, on a container it now owns alone
C20_Witness ==
    /\ call.op = "takeAt" /\ call.preRef = 2 /\ ~crashed /\ call.ret = JsonDouble
    /\ a[call.h] # NULL /\ size(a, heap, call.h) = 0 /\ heap[a[call.h]].ref = 1
    /\ \E o \in live \ {call.h} :
          /\ a[o] # NULL /\ a[o] # a[call.h] /\ heap[a[o]].ref = 1
          /\ Contents(a, heap, o) = <<JsonDouble>>

\* the read methods
ReadOps ==
    {"size", "isEmpty", "at", "first", "last", "contains", "operator[] const",
     "operator=="}

\* C21: a call of size(), isEmpty(), at(i), first(), last(), contains(v), the
\* const operator[](i) or operator== changes nothing, whatever its argument
\* and whatever the state: every handle keeps its container pointer and every
\* container its reference count and its elements, no container is allocated
\* or freed, and no detach takes place
C21_ReadsChangeNothing ==
    [][call'.op \in ReadOps =>
         /\ UNCHANGED <<live, a, heap, crashed>>
         /\ call'.editRef = 0 /\ ~call'.detachFailed
         /\ call'.preRef = (IF a'[call'.h] = NULL THEN 0 ELSE heap'[a'[call'.h]].ref)]_vars
\* the const operator[] read an element of an array whose container has two
\* owners, and the container still has two owners
C21_Witness ==
    /\ call.op = "operator[] const" /\ call.ret = JsonDouble /\ call.i = 1
    /\ call.preRef = 2 /\ heap[a[call.h]].ref = 2
    /\ \E o \in live \ {call.h} : a[o] = a[call.h]

\* the handles that reference container d
Owners(d) == {h \in Handles : a[h] = d}

\* C22: in every reachable state the reference count of each container that
\* is not freed is the number of handles that reference it, a container is
\* freed exactly when no handle references it, no live handle references a
\* freed container, and a handle that is not live references none
C22_RefCountIsOwners ==
    /\ \A d \in Backends :
          /\ ~heap[d].freed => heap[d].ref = Cardinality(Owners(d))
          /\ heap[d].freed <=> Owners(d) = {}
    /\ \A h \in live : a[h] # NULL => ~heap[a[h]].freed
    /\ \A h \in Handles \ live : a[h] = NULL
\* an array with a container of its own was assigned another array: the
\* container it had is freed and the one it has now counts two owners
C22_Witness ==
    /\ call.op = "operator=" /\ call.preRef = 1 /\ call.h # call.o
    /\ a[call.h] # NULL /\ a[call.h] = a[call.o] /\ heap[a[call.h]].ref = 2
    /\ \E d \in Backends : heap[d].freed

\* C23: the default constructor leaves the handle without a container and
\* allocates none; a read, removeAt or takeAt on a handle without a container
\* leaves it without one and allocates none; insert, append or prepend on such
\* a handle gives it a container that was free before, that only this handle
\* owns (reference count 1) and that holds just the inserted element; and
\* detach on a handle without a container reports success and changes nothing
C23_LazyAllocation ==
    /\ [](\A h \in live : a[h] = NULL =>
             \A reserve \in 0..MaxLen, ok \in BOOLEAN :
                 detach(Outcome(a, heap), h, reserve, ok) = Outcome(a, heap))
    /\ [][/\ call'.op = "QJsonArray" =>
                /\ a'[call'.h] = NULL /\ heap' = heap
                /\ a' = a /\ live' = live \cup {call'.h}
          /\ (/\ call'.op \in ReadOps \cup {"removeAt", "takeAt"}
              /\ a[call'.h] = NULL) =>
                /\ a'[call'.h] = NULL /\ heap' = heap /\ a' = a /\ ~crashed'
          /\ (/\ call'.op \in {"insert", "append", "prepend"}
              /\ a[call'.h] = NULL) =>
                LET h == call'.h
                    new == a'[h]
                IN /\ ~crashed' /\ ~call'.detachFailed
                   /\ new # NULL /\ heap[new].freed /\ ~heap'[new].freed
                   /\ heap'[new].ref = 1 /\ {o \in Handles : a'[o] = new} = {h}
                   /\ Contents(a', heap', h) = <<StoredAs(call'.v)>>
                   /\ \A d \in Backends \ {new} : heap'[d] = heap[d]
                   /\ \A o \in Handles \ {h} : a'[o] = a[o]]_vars
\* the first append to a handle that had no container, while another handle
\* has a container of two elements
C23_Witness ==
    /\ call.op = "append" /\ call.preRef = 0 /\ call.v = JsonDouble /\ ~crashed
    /\ heap[a[call.h]].ref = 1 /\ Contents(a, heap, call.h) = <<JsonDouble>>
    /\ \E o \in live \ {call.h} : size(a, heap, o) = 2

\* C24: among three handles, a mutating call on any one of them, the first
\* among them, leaves the size and every element of each of the others as
\* they were, and the others that compared equal to each other before the
\* call, sharing a container or not, compare equal after it
C24_IsolationAmongThree ==
    [][call'.op \in MutatingOps =>
         LET others == live' \ {call'.h}
         IN /\ live' = live
            /\ \A o \in others :
                  /\ Contents(a', heap', o) = Contents(a, heap, o)
                  /\ a'[o] = a[o]
            /\ \A o1 \in others, o2 \in others :
                  comparesEqual(a, heap, o1, o2) => comparesEqual(a', heap', o1, o2)]_vars
\* the first of three handles on one container replaced its first element:
\* the other two still share the container and read what they read before
C24_Witness ==
    /\ call.op = "replace" /\ call.h = "h1" /\ call.preRef = 3 /\ ~crashed
    /\ call.i = 0 /\ call.v = JsonNull
    /\ live = Handles3 /\ a["h2"] = a["h3"] /\ a["h1"] # a["h2"]
    /\ heap[a["h2"]].ref = 2 /\ heap[a["h1"]].ref = 1
    /\ Contents(a, heap, "h1") = <<JsonNull, JsonDouble>>
    /\ Contents(a, heap, "h2") = <<JsonDouble, JsonDouble>>
    /\ comparesEqual(a, heap, "h2", "h3") /\ ~comparesEqual(a, heap, "h1", "h2")

\* C25: move construction hands the container of the source to the new
\* handle: the new handle reads what the source read, the source has no
\* container (size() 0, isEmpty() true), no container is allocated, copied or
\* freed and no reference count changes, and every other handle keeps its
\* container and its elements
C25_MoveTransfersContainer ==
    [][call'.op = "move" =>
         LET h == call'.h
             src == call'.o
         IN /\ live' = live \cup {h} /\ h \notin live /\ ~crashed'
            /\ a'[h] = a[src] /\ Contents(a', heap', h) = Contents(a, heap, src)
            /\ a'[src] = NULL /\ size(a', heap', src) = 0 /\ isEmpty(a', heap', src)
            /\ heap' = heap
            /\ \A o \in live \ {src} :
                  a'[o] = a[o] /\ Contents(a', heap', o) = Contents(a, heap, o)]_vars
\* a handle was move-constructed from one that shared a container of two
\* elements with a third handle
C25_Witness ==
    /\ call.op = "move" /\ a[call.o] = NULL /\ call.o \in live
    /\ size(a, heap, call.h) = 2 /\ heap[a[call.h]].ref = 2
    /\ \E o \in live \ {call.h, call.o} : a[o] = a[call.h]

\* ---- an array compared with a JSON value ----
\* QJsonValue(const QJsonArray &): a value of type Array on the container d;
\* elems are the elements of d when d is a container of the value's own
JsonArrayValue(d, elems) == [type |-> "Array", v |-> "", d |-> d, elements |-> elems]
\* QJsonValue::toArray: the array of a value of type Array, a
\* default-constructed array for a value of any other type
toArray(val) == IF val.type = "Array" THEN <<val.d, val.elements>> ELSE <<NULL, <<>>>>
\* a comparison that takes a value of another type than Array for unequal
comparesEqualValueTyped(lhs, rhs) ==
    /\ rhs.type = "Array"
    /\ comparesEqual(WithThird(toArray(rhs)[1]), HeapWithThird(toArray(rhs)[2]), lhs, Third)
\* comparesEqual(const QJsonArray &lhs, const QJsonValue &rhs):
\* lhs == rhs.toArray(), the temporary array being Third
comparesEqualValue(lhs, rhs) ==
    comparesEqual(WithThird(toArray(rhs)[1]), HeapWithThird(toArray(rhs)[2]), lhs, Third)
\* the values of another type than Array, and the values of type Array on no
\* container, on the container of a live handle, or on a container of their own
PlainValues == JsonValues \cup {JsonString("x")}
ArrayValues ==
    {JsonArrayValue(ptr, <<>>) : ptr \in {NULL} \cup {a[h] : h \in live}}
        \cup {JsonArrayValue(ThirdCell, heap[a[h]].elements) : h \in {g \in live : a[g] # NULL}}
\* operator==(const QJsonArray &lhs, const QJsonValue &rhs)
EqualsValue(lhs, rhs) ==
    /\ ~crashed /\ lhs \in live
    /\ Read("operator==(value)", lhs, NoHandle, 0, rhs, comparesEqualValue(lhs, rhs))
NextValue ==
    \/ Lifecycle
    \/ Mutation
    \/ \E lhs \in Handles : \E rhs \in PlainValues \cup ArrayValues : EqualsValue(lhs, rhs)
SpecValue == Init /\ [][NextValue]_vars

\* C26: an array compared with a JSON value gives what the array compared
\* with the value's toArray() gives: with a value of type Array, equal iff
\* the two arrays have the same size and equal elements at every index; with
\* a value of any other type, equal iff the array is empty; and a call of the
\* comparison returns just that
C26_ValueComparesAsItsArray ==
    /\ \A l \in live :
          /\ \A val \in PlainValues :
                /\ comparesEqualValue(l, val) <=> isEmpty(a, heap, l)
                /\ comparesEqualValue(l, val) <=>
                      comparesEqual(WithThird(NULL), HeapWithThird(<<>>), l, Third)
          /\ \A t \in ThirdArraysNear :
                LET pa == WithThird(t[1])
                    hp == HeapWithThird(t[2])
                    val == JsonArrayValue(t[1], t[2])
                IN /\ comparesEqualValue(l, val) <=> comparesEqual(pa, hp, l, Third)
                   /\ comparesEqualValue(l, val) <=> ElementwiseEqual(pa, hp, l, Third)
    /\ call.op = "operator==(value)" =>
          /\ call.ret = comparesEqualValue(call.h, call.v)
          /\ call.v.type # "Array" => (call.ret <=> isEmpty(a, heap, call.h))
\* an array of two elements compared equal to a value of type Array that has
\* a container of its own
C26_Witness ==
    /\ call.op = "operator==(value)" /\ call.ret = TRUE
    /\ call.v.type = "Array" /\ call.v.d = ThirdCell
    /\ size(a, heap, call.h) = 2 /\ a[call.h] # call.v.d

====
